---- MODULE Spec2Model ----
(***************************************************************************)
(* Model of backend/main.py of the phishing detector: the heuristic risk   *)
(* scorer, the verdict mapping, the header inspector, the rule-based safe  *)
(* rewrite and the word-level diff.                                        *)
(*                                                                         *)
(* A Python str is a sequence of one-character strings, so that substring  *)
(* tests, lower(), strip(), split() and the regular expressions act on     *)
(* characters as they do in the program.  Optional values are None (the    *)
(* empty tuple) or Some(v) (a one-element tuple).                          *)
(***************************************************************************)
EXTENDS Integers, Sequences, FiniteSets, TLC

VARIABLES
    pc,            \* "call" before the function under study has run, "done" after
    subject,       \* simple_heuristic_score / rewrite_to_safe argument
    body,          \* simple_heuristic_score / rewrite_to_safe argument
    score_in,      \* score_to_verdict argument
    raw_headers,   \* fake_header_analysis argument: None or Some(str)
    original,      \* diff_words_html argument
    safe,          \* diff_words_html argument
    result         \* the value returned by the function (None before the call)

vars == <<pc, subject, body, score_in, raw_headers, original, safe, result>>

None == << >>
Some(v) == <<v>>

(***************************************************************************)
(* Bounds of the model.                                                    *)
(***************************************************************************)
MaxScoreChunks == 2
MaxHeaderChunks == 3
MaxRewriteChunks == 3
MaxDiffChunks == 6
MaxSameChunks == 6

(***************************************************************************)
(* str helpers.                                                            *)
(***************************************************************************)
UpperLetters == <<"A","B","C","D","E","F","G","H","I","J","K","L","M","N","O","P","Q","R","S","T","U","V","W","X","Y","Z">>
LowerLetters == <<"a","b","c","d","e","f","g","h","i","j","k","l","m","n","o","p","q","r","s","t","u","v","w","x","y","z">>

UpperSet == {UpperLetters[i] : i \in 1..Len(UpperLetters)}

\* str.lower() on one character.
LowerChar(c) ==
    IF c \in UpperSet
    THEN LowerLetters[CHOOSE i \in 1..Len(UpperLetters) : UpperLetters[i] = c]
    ELSE c

\* str.lower()
Lower(s) == [i \in 1..Len(s) |-> LowerChar(s[i])] \o << >>

\* s.startswith(pat, i) with i a 1-based position
MatchAt(s, pat, i) ==
    /\ i >= 1
    /\ i + Len(pat) - 1 <= Len(s)
    /\ \A j \in 1..Len(pat) : s[i + j - 1] = pat[j]

\* pat in s
Contains(s, pat) == \E i \in 1..(Len(s) - Len(pat) + 1) : MatchAt(s, pat, i)

RECURSIVE Concat(_)
\* "".join(chunks)
Concat(chunks) ==
    IF chunks = << >> THEN << >> ELSE Head(chunks) \o Concat(Tail(chunks))

\* The strings made of exactly n chunks of a vocabulary.
Texts(vocab, n) == {Concat(cs) : cs \in [1..n -> vocab]}

(***************************************************************************)
(* simple_heuristic_score                                                  *)
(***************************************************************************)
phishing_keywords ==
    << <<"p","a","s","s","w","o","r","d">>, <<"v","e","r","i","f","y">>, <<"a","c","c","o","u","n","t">>, <<"l","o","g","i","n">>, <<"c","l","i","c","k">>, <<"r","e","s","e","t">>, <<"u","r","g","e","n","t">> >>

BaseScore == 10
KeywordPoints == 15
LinkPoints == 20
FinancialPoints == 15
MaxScore == 100

\* the for loop over phishing_keywords, from keyword i on; acc = [score, reasons]
RECURSIVE KeywordLoop(_, _, _)
KeywordLoop(text, i, acc) ==
    IF i > Len(phishing_keywords) THEN acc
    ELSE LET word == phishing_keywords[i]
         IN  IF Contains(text, word)
             THEN KeywordLoop(text, i + 1,
                      [score |-> acc.score + KeywordPoints,
                       reasons |-> Append(acc.reasons, <<"C","o","n","t","a","i","n","s"," ","k","e","y","w","o","r","d",":"," ">> \o word)])
             ELSE KeywordLoop(text, i + 1, acc)

\* faulty variant of has_link: the "https://" test is left out
has_link_https_missed(text) == Contains(text, <<"h","t","t","p",":","/","/">>)

\* "http://" in text or "https://" in text
has_link(text) == Contains(text, <<"h","t","t","p",":","/","/">>) \/ Contains(text, <<"h","t","t","p","s",":","/","/">>)

\* "bank" in text or "paypal" in text or "crypto" in text
has_financial(text) ==
    Contains(text, <<"b","a","n","k">>) \/ Contains(text, <<"p","a","y","p","a","l">>) \/ Contains(text, <<"c","r","y","p","t","o">>)

\* faulty variant of clamp_score: no clamp
clamp_score_missing(score) == score

\* if score > 100: score = 100
clamp_score(score) == IF score > MaxScore THEN MaxScore ELSE score

simple_heuristic_score(subj, bod) ==
    LET text == Lower(subj \o <<" ">> \o bod)
        afterKeywords == KeywordLoop(text, 1, [score |-> BaseScore, reasons |-> << >>])
        afterLink ==
            IF has_link(text)
            THEN [score |-> afterKeywords.score + LinkPoints,
                  reasons |-> Append(afterKeywords.reasons, <<"C","o","n","t","a","i","n","s"," ","a"," ","l","i","n","k">>)]
            ELSE afterKeywords
        afterFinancial ==
            IF has_financial(text)
            THEN [score |-> afterLink.score + FinancialPoints,
                  reasons |-> Append(afterLink.reasons,
                                     <<"M","e","n","t","i","o","n","s"," ","f","i","n","a","n","c","i","a","l"," ","s","e","r","v","i","c","e"," ","o","r"," ","m","o","n","e","y">>)]
            ELSE afterLink
    IN  [score |-> clamp_score(afterFinancial.score), reasons |-> afterFinancial.reasons]

(***************************************************************************)
(* score_to_verdict                                                        *)
(***************************************************************************)
SafeMax == 30
SuspiciousMax == 69

\* faulty variant of score_to_verdict: < in place of the first <=
score_to_verdict_strict(score) ==
    IF score < SafeMax THEN "SAFE"
    ELSE IF score <= SuspiciousMax THEN "SUSPICIOUS"
    ELSE "PHISHING"

score_to_verdict(score) ==
    IF score <= SafeMax THEN "SAFE"
    ELSE IF score <= SuspiciousMax THEN "SUSPICIOUS"
    ELSE "PHISHING"

(***************************************************************************)
(* fake_header_analysis                                                    *)
(***************************************************************************)
\* not raw_headers: None or the empty string
HeadersFalsy(h) == h = None \/ h = Some(<< >>)

NoHeadersFlag == <<"N","o"," ","h","e","a","d","e","r","s"," ","p","r","o","v","i","d","e","d">>
SpfFailFlag == <<"S","P","F"," ","f","a","i","l"," ","f","o","u","n","d"," ","i","n"," ","A","u","t","h","e","n","t","i","c","a","t","i","o","n","-","R","e","s","u","l","t","s">>
DkimFailFlag == <<"D","K","I","M"," ","f","a","i","l"," ","f","o","u","n","d"," ","i","n"," ","A","u","t","h","e","n","t","i","c","a","t","i","o","n","-","R","e","s","u","l","t","s">>
DmarcFailFlag == <<"D","M","A","R","C"," ","f","a","i","l"," ","f","o","u","n","d"," ","i","n"," ","A","u","t","h","e","n","t","i","c","a","t","i","o","n","-","R","e","s","u","l","t","s">>

HeaderAnalysis(spf, dkim, dmarc, flags) ==
    [spf_pass |-> spf, dkim_pass |-> dkim, dmarc_pass |-> dmarc,
     from_domain |-> None, return_path_domain |-> None, reply_to_domain |-> None,
     suspicious_flags |-> flags]

\* "<mech>=pass" in lower
header_pass(h, needle) == Contains(Lower(h[1]), needle)

\* faulty variant of header_flags: the DMARC test comes first
header_flags_dmarc_first(lower) ==
    (IF Contains(lower, <<"d","m","a","r","c","=","f","a","i","l">>) THEN <<DmarcFailFlag>> ELSE << >>)
    \o (IF Contains(lower, <<"s","p","f","=","f","a","i","l">>) THEN <<SpfFailFlag>> ELSE << >>)
    \o (IF Contains(lower, <<"d","k","i","m","=","f","a","i","l">>) THEN <<DkimFailFlag>> ELSE << >>)

\* the three "=fail" tests, appending to flags in source order
header_flags(lower) ==
    (IF Contains(lower, <<"s","p","f","=","f","a","i","l">>) THEN <<SpfFailFlag>> ELSE << >>)
    \o (IF Contains(lower, <<"d","k","i","m","=","f","a","i","l">>) THEN <<DkimFailFlag>> ELSE << >>)
    \o (IF Contains(lower, <<"d","m","a","r","c","=","f","a","i","l">>) THEN <<DmarcFailFlag>> ELSE << >>)

\* faulty variant of no_headers_result: no flag
no_headers_result_empty_flags == HeaderAnalysis(None, None, None, << >>)

\* the early return of fake_header_analysis
no_headers_result == HeaderAnalysis(None, None, None, <<NoHeadersFlag>>)

fake_header_analysis(h) ==
    IF HeadersFalsy(h)
    THEN no_headers_result
    ELSE HeaderAnalysis(Some(header_pass(h, <<"s","p","f","=","p","a","s","s">>)),
                        Some(header_pass(h, <<"d","k","i","m","=","p","a","s","s">>)),
                        Some(header_pass(h, <<"d","m","a","r","c","=","p","a","s","s">>)),
                        header_flags(Lower(h[1])))

(***************************************************************************)
(* Inputs of the scorer, the verdict mapping and the header inspector.     *)
(***************************************************************************)
ScoreVocab ==
    { <<"p","a","s","s">>, <<"w","o","r","d">>, <<"U","r","g","e","n","t",":"," ","v","e","r","i","f","y"," ","a","c","c","o","u","n","t"," ","p","a","s","s","w","o","r","d">>,
      <<"c","l","i","c","k"," ","h","t","t","p",":","/","/","x"," ","l","o","g","i","n"," ","r","e","s","e","t">>, <<"h","t","t","p","s",":","/","/","p","a","y","p","a","l",".","e","x","a","m","p","l","e">>, <<"P","a","y","P","a","l">> }

\* subject and body hold at most MaxScoreChunks chunks between them
ScoreInputs ==
    UNION {Texts(ScoreVocab, i) \X Texts(ScoreVocab, j) :
               <<i, j>> \in {p \in (0..MaxScoreChunks) \X (0..MaxScoreChunks) :
                                 p[1] + p[2] <= MaxScoreChunks}}

HeaderVocab ==
    { <<"S","P","F","=","P","A","S","S">>, <<"s","p","f","=","f","a","i","l">>, <<"d","k","i","m","=","p","a","s","s">>, <<"D","K","I","M","=","f","a","i","l">>, <<"d","m","a","r","c","=","p","a","s","s">>,
      <<"d","m","a","r","c","=","f","a","i","l">>, <<";"," ">>, <<"s","p","f","=">>, <<"p","a","s","s">> }

HeaderInputs ==
    {None} \cup UNION {{Some(t) : t \in Texts(HeaderVocab, n)} : n \in 0..MaxHeaderChunks}

Idle ==
    /\ pc = "call"
    /\ result = None

(***************************************************************************)
(* Specification of the scorer: one call of simple_heuristic_score.        *)
(***************************************************************************)
InitScore ==
    /\ Idle
    /\ \E p \in ScoreInputs : subject = p[1] /\ body = p[2]
    /\ score_in = 0
    /\ raw_headers = None
    /\ original = << >>
    /\ safe = << >>

CallScore ==
    /\ pc = "call"
    /\ pc' = "done"
    /\ result' = simple_heuristic_score(subject, body)
    /\ UNCHANGED <<subject, body, score_in, raw_headers, original, safe>>

SpecScore == InitScore /\ [][CallScore]_vars

(***************************************************************************)
(* Specification of the verdict mapping: one call of score_to_verdict.     *)
(***************************************************************************)
InitVerdict ==
    /\ Idle
    /\ score_in \in 0..MaxScore
    /\ subject = << >>
    /\ body = << >>
    /\ raw_headers = None
    /\ original = << >>
    /\ safe = << >>

CallVerdict ==
    /\ pc = "call"
    /\ pc' = "done"
    /\ result' = score_to_verdict(score_in)
    /\ UNCHANGED <<subject, body, score_in, raw_headers, original, safe>>

SpecVerdict == InitVerdict /\ [][CallVerdict]_vars

(***************************************************************************)
(* Specification of the header inspector: one call of                      *)
(* fake_header_analysis.                                                   *)
(***************************************************************************)
InitHeader ==
    /\ Idle
    /\ raw_headers \in HeaderInputs
    /\ subject = << >>
    /\ body = << >>
    /\ score_in = 0
    /\ original = << >>
    /\ safe = << >>

CallHeader ==
    /\ pc = "call"
    /\ pc' = "done"
    /\ result' = fake_header_analysis(raw_headers)
    /\ UNCHANGED <<subject, body, score_in, raw_headers, original, safe>>

SpecHeader == InitHeader /\ [][CallHeader]_vars

(***************************************************************************)
(* The regular expressions of rewrite_to_safe, and re.sub.                 *)
(*                                                                         *)
(* A pattern is one of                                                     *)
(*   literal: a text without metacharacters, compiled with re.IGNORECASE;  *)
(*   url:     https?://\S+                                                 *)
(*   chain:   (?i)a1.*a2. ... .*an, each ai an ordered alternation of      *)
(*            literal texts, the .* greedy and not matching a newline.     *)
(* MatchEnd(pat, s, i) is the position after the match of pat that starts  *)
(* at position i of s (the one the backtracking matcher finds first), or 0 *)
(* when pat does not match at i.  No pattern matches the empty string.     *)
(***************************************************************************)
Literal(text) == [kind |-> "literal", text |-> text]
UrlPattern == [kind |-> "url"]
Chain(anchors) == [kind |-> "chain", anchors |-> anchors]

\* \s: the whitespace characters of the model's alphabet
Whitespace == {" ", "\t", "\n", "\r", "\f"}

\* text matches at position i of s, ignoring case
MatchAtIgnoreCase(s, text, i) ==
    /\ i >= 1
    /\ i + Len(text) - 1 <= Len(s)
    /\ \A j \in 1..Len(text) : LowerChar(s[i + j - 1]) = LowerChar(text[j])

SetMax(S) == CHOOSE x \in S : \A y \in S : y <= x
SetMin(S) == CHOOSE x \in S : \A y \in S : x <= y

\* \S+ from position j on (greedy): the position after the run, which ends
\* at the first whitespace character or at the end of s
NonSpaceRunEnd(s, j) ==
    SetMin({k \in j..Len(s) : s[k] \in Whitespace} \cup {Len(s) + 1})

\* ://\S+ at position j
UrlTailEnd(s, j) ==
    IF MatchAt(s, <<":","/","/">>, j) /\ NonSpaceRunEnd(s, j + 3) > j + 3
    THEN NonSpaceRunEnd(s, j + 3)
    ELSE 0

\* faulty variant of UrlMatchEnd: http://\S+, without the optional s
UrlMatchEnd_http_only(s, i) ==
    IF MatchAt(s, <<"h","t","t","p">>, i) THEN UrlTailEnd(s, i + 4) ELSE 0

\* https?://\S+ at position i: the optional s is tried first
UrlMatchEnd(s, i) ==
    IF ~MatchAt(s, <<"h","t","t","p">>, i) THEN 0
    ELSE IF MatchAt(s, <<"s">>, i + 4) /\ UrlTailEnd(s, i + 5) > 0 THEN UrlTailEnd(s, i + 5)
    ELSE UrlTailEnd(s, i + 4)

\* the position of the first newline at or after j, or Len(s) + 1
LineEnd(s, j) == SetMin({k \in j..Len(s) : s[k] = "\n"} \cup {Len(s) + 1})

RECURSIVE ChainAlt(_, _, _, _, _)
RECURSIVE StarThen(_, _, _, _, _)
\* anchors[k] (alternatives a, a+1, ... in order) at position pos, then the
\* rest of the chain
ChainAlt(anchors, k, a, s, pos) ==
    IF a > Len(anchors[k]) THEN 0
    ELSE LET alt == anchors[k][a]
             after == pos + Len(alt)
             rest == IF ~MatchAtIgnoreCase(s, alt, pos) THEN 0
                     ELSE IF k = Len(anchors) THEN after
                     ELSE StarThen(anchors, k + 1, s, after, LineEnd(s, after))
         IN  IF rest > 0 THEN rest ELSE ChainAlt(anchors, k, a + 1, s, pos)

\* .* then anchors[k..]: the .* first takes everything up to e and gives
\* back one character at a time, down to lo, so the rest of the chain is
\* matched at the last position in lo..e where it matches
StarThen(anchors, k, s, lo, e) ==
    LET starts == {q \in lo..e : ChainAlt(anchors, k, 1, s, q) > 0}
    IN  IF starts = {} THEN 0 ELSE ChainAlt(anchors, k, 1, s, SetMax(starts))

MatchEnd(pat, s, i) ==
    IF pat.kind = "literal"
    THEN (IF MatchAtIgnoreCase(s, pat.text, i) THEN i + Len(pat.text) ELSE 0)
    ELSE IF pat.kind = "url" THEN UrlMatchEnd(s, i)
    ELSE ChainAlt(pat.anchors, 1, 1, s, i)

RECURSIVE SubFrom(_, _, _, _)
\* re.sub from position i on: the text up to the leftmost match is kept, the
\* match is replaced and the scan goes on after it
SubFrom(pat, repl, s, i) ==
    LET starts == {k \in i..Len(s) : MatchEnd(pat, s, k) > 0}
    IN  IF starts = {} THEN SubSeq(s, i, Len(s))
        ELSE LET k == SetMin(starts)
             IN  SubSeq(s, i, k - 1) \o repl \o SubFrom(pat, repl, s, MatchEnd(pat, s, k))

\* re.sub(pat, repl, s)
re_sub(pat, repl, s) == SubFrom(pat, repl, s, 1)

RECURSIVE LStrip(_)
LStrip(s) == IF s # << >> /\ Head(s) \in Whitespace THEN LStrip(Tail(s)) ELSE s

RECURSIVE RStrip(_)
RStrip(s) ==
    IF s # << >> /\ s[Len(s)] \in Whitespace THEN RStrip(SubSeq(s, 1, Len(s) - 1)) ELSE s

\* str.strip()
Strip(s) == RStrip(LStrip(s))

(***************************************************************************)
(* rewrite_to_safe                                                         *)
(***************************************************************************)
\* a dict literal keeps insertion order: <<bad, good>> pairs in source order
subject_replacements ==
    << <<<<"s","u","s","p","e","n","d","e","d">>, <<"u","p","d","a","t","e","d">>>>,
       <<<<"s","u","s","p","e","n","s","i","o","n">>, <<"u","p","d","a","t","e">>>>,
       <<<<"u","r","g","e","n","t">>, <<"i","m","p","o","r","t","a","n","t">>>>,
       <<<<"i","m","m","e","d","i","a","t","e","l","y">>, <<>>>>,
       <<<<"i","m","m","e","d","i","a","t","e">>, <<>>>> >>

patterns_to_remove ==
    << Chain(<< <<<<"c","l","i","c","k">>>>, <<<<"l","i","n","k">>>>,
                <<<<"l","o","g","i","n">>, <<"l","o","g"," ","i","n">>, <<"v","e","r","i","f","y">>, <<"r","e","s","e","t">>>> >>),
       Chain(<< <<<<"e","n","t","e","r">>>>, <<<<"p","a","s","s","w","o","r","d">>>> >>),
       Chain(<< <<<<"p","r","o","v","i","d","e">>>>, <<<<"c","r","e","d","e","n","t","i","a","l","s">>>> >>) >>

body_replacements ==
    << <<<<"w","i","l","l"," ","b","e"," ","c","l","o","s","e","d">>, <<"m","a","y"," ","r","e","q","u","i","r","e"," ","y","o","u","r"," ","a","t","t","e","n","t","i","o","n">>>>,
       <<<<"w","i","l","l"," ","b","e"," ","d","i","s","a","b","l","e","d">>, <<"m","a","y"," ","b","e"," ","t","e","m","p","o","r","a","r","i","l","y"," ","l","i","m","i","t","e","d">>>>,
       <<<<"w","i","t","h","i","n"," ","2","4"," ","h","o","u","r","s">>, <<"i","n"," ","t","h","e"," ","n","e","a","r"," ","f","u","t","u","r","e">>>>,
       <<<<"i","m","m","e","d","i","a","t","e","l","y">>, <<"s","o","o","n">>>>,
       <<<<"u","r","g","e","n","t">>, <<"i","m","p","o","r","t","a","n","t">>>> >>

RemovedMarker == <<"[","r","e","m","o","v","e","d"," ","s","e","n","s","i","t","i","v","e"," ","i","n","s","t","r","u","c","t","i","o","n","s","]">>
LinkMarker == <<"[","l","i","n","k"," ","r","e","m","o","v","e","d","]">>
Closing == <<"\n","\n","T","h","a","n","k"," ","y","o","u",",","\n","C","u","s","t","o","m","e","r"," ","S","u","p","p","o","r","t"," ","T","e","a","m">>

RECURSIVE ApplyReplacements(_, _, _)
\* for bad, good in replacements.items(): s = re.sub(bad, good, s, flags=re.IGNORECASE)
ApplyReplacements(replacements, i, s) ==
    IF i > Len(replacements) THEN s
    ELSE ApplyReplacements(replacements, i + 1,
             re_sub(Literal(replacements[i][1]), replacements[i][2], s))

rewrite_subject(subj) == ApplyReplacements(subject_replacements, 1, subj)

RECURSIVE RemovePatterns(_, _)
\* for pat in patterns_to_remove: safe_body = re.sub(pat, marker, safe_body)
RemovePatterns(i, s) ==
    IF i > Len(patterns_to_remove) THEN s
    ELSE RemovePatterns(i + 1, re_sub(patterns_to_remove[i], RemovedMarker, s))

\* safe_body = re.sub(r"https?://\S+", "[link removed]", safe_body)
remove_urls(s) == re_sub(UrlPattern, LinkMarker, s)

\* the body after the removals, the URL removal and the softening
body_before_closing(bod) ==
    ApplyReplacements(body_replacements, 1, remove_urls(RemovePatterns(1, bod)))

\* faulty variant of add_closing: the test is made without lower()
add_closing_case_sensitive(s) ==
    IF ~Contains(s, <<"t","h","a","n","k"," ","y","o","u">>) THEN Strip(s) \o Closing ELSE s

\* if "thank you" not in safe_body.lower(): safe_body = safe_body.strip() + closing
add_closing(s) ==
    IF ~Contains(Lower(s), <<"t","h","a","n","k"," ","y","o","u">>) THEN Strip(s) \o Closing ELSE s

rewrite_to_safe(subj, bod) ==
    [safe_subject |-> rewrite_subject(subj),
     safe_body |-> add_closing(body_before_closing(bod))]

(***************************************************************************)
(* Specification of the rewrite: one call of rewrite_to_safe.              *)
(***************************************************************************)
RewriteSubjectVocab ==
    { <<"S","u","s","p","e","n","d","e","d">>, <<"i","m","m","e","d","i","a","t","e"," ","s","u","s","p","e","n","s","i","o","n">>, <<"i","m","m","e","d","i","a","t","e","l","y">>, <<"u","r">>, <<"g","e","n","t">> }

RewriteBodyVocab ==
    { <<"C","l","i","c","k"," ","t","h","e"," ","l","i","n","k"," ","t","o"," ","l","o","g"," ","i","n">>, <<"E","n","t","e","r"," ","p","a","s","s","w","o","r","d",","," ","u","r","g","e","n","t">>, <<"h","t","t","p",":","/","/">>,
      <<"h","t","t","p","s",":","/","/","a",".","i","o","/","r","e","s","e","t">>, <<" ">>, <<"\n">>, <<"T","h","a","n","k"," ","Y","o","u">> }

\* subject and body hold at most MaxRewriteChunks chunks between them
RewriteInputs ==
    UNION {Texts(RewriteSubjectVocab, i) \X Texts(RewriteBodyVocab, j) :
               <<i, j>> \in {p \in (0..MaxRewriteChunks) \X (0..MaxRewriteChunks) :
                                 p[1] + p[2] <= MaxRewriteChunks}}

InitRewrite ==
    /\ Idle
    /\ \E p \in RewriteInputs : subject = p[1] /\ body = p[2]
    /\ score_in = 0
    /\ raw_headers = None
    /\ original = << >>
    /\ safe = << >>

CallRewrite ==
    /\ pc = "call"
    /\ pc' = "done"
    /\ result' = rewrite_to_safe(subject, body)
    /\ UNCHANGED <<subject, body, score_in, raw_headers, original, safe>>

SpecRewrite == InitRewrite /\ [][CallRewrite]_vars

(***************************************************************************)
(* difflib.SequenceMatcher(None, a, b), as diff_words_html uses it: no     *)
(* junk predicate, autojunk left on.  Positions are 0-based as in the      *)
(* library, so element i of a Python list x is x[i + 1] here.  A match and *)
(* a (alo, ahi, blo, bhi) range are tuples.                                *)
(***************************************************************************)
AutojunkMinLen == 200
AutojunkDivisor == 100

\* __chain_b: the elements of b dropped from b2j as "popular"
Popular(b) ==
    IF Len(b) >= AutojunkMinLen
    THEN {b[j] : j \in {j0 \in 1..Len(b) :
              Cardinality({m \in 1..Len(b) : b[m] = b[j0]}) > Len(b) \div AutojunkDivisor + 1}}
    ELSE {}

RECURSIVE RunLen(_, _, _, _, _, _, _)
\* newj2len[j] while the loop of find_longest_match is at i: the length of the
\* common run of indexed elements that ends at a[i], b[j] inside the range
RunLen(a, b, popular, alo, blo, i, j) ==
    IF a[i + 1] # b[j + 1] \/ b[j + 1] \in popular THEN 0
    ELSE 1 + (IF i > alo /\ j > blo THEN RunLen(a, b, popular, alo, blo, i - 1, j - 1)
              ELSE 0)

RECURSIVE ExtendLeft(_, _, _, _, _)
\* while besti > alo and bestj > blo and a[besti-1] == b[bestj-1]
ExtendLeft(a, b, alo, blo, m) ==
    IF m[1] > alo /\ m[2] > blo /\ a[m[1]] = b[m[2]]
    THEN ExtendLeft(a, b, alo, blo, <<m[1] - 1, m[2] - 1, m[3] + 1>>)
    ELSE m

RECURSIVE ExtendRight(_, _, _, _, _)
\* while besti+bestsize < ahi and bestj+bestsize < bhi and the next elements agree
ExtendRight(a, b, ahi, bhi, m) ==
    IF m[1] + m[3] < ahi /\ m[2] + m[3] < bhi /\ a[m[1] + m[3] + 1] = b[m[2] + m[3] + 1]
    THEN ExtendRight(a, b, ahi, bhi, <<m[1], m[2], m[3] + 1>>)
    ELSE m

\* the double loop of find_longest_match: k > bestsize is strict, so the
\* longest run found first (lowest i, then lowest j) stays
BestRun(a, b, alo, ahi, blo, bhi) ==
    LET popular == Popular(b)
        cells == (alo..(ahi - 1)) \X (blo..(bhi - 1))
        len(c) == RunLen(a, b, popular, alo, blo, c[1], c[2])
        best == SetMax({0} \cup {len(c) : c \in cells})
        i == SetMin({c[1] : c \in {d \in cells : len(d) = best}})
        j == SetMin({c[2] : c \in {d \in cells : d[1] = i /\ len(d) = best}})
    IN  IF best = 0 THEN <<alo, blo, 0>> ELSE <<i - best + 1, j - best + 1, best>>

\* bjunk is empty, so the two loops that extend over junk never run
find_longest_match(a, b, alo, ahi, blo, bhi) ==
    ExtendRight(a, b, ahi, bhi,
        ExtendLeft(a, b, alo, blo, BestRun(a, b, alo, ahi, blo, bhi)))

RECURSIVE MatchQueue(_, _, _, _)
\* the while queue: loop of get_matching_blocks (queue.pop() takes the last)
MatchQueue(a, b, queue, blocks) ==
    IF queue = << >> THEN blocks
    ELSE LET r == queue[Len(queue)]
             rest == SubSeq(queue, 1, Len(queue) - 1)
             x == find_longest_match(a, b, r[1], r[2], r[3], r[4])
             i == x[1]
             j == x[2]
             k == x[3]
         IN  IF k = 0 THEN MatchQueue(a, b, rest, blocks)
             ELSE MatchQueue(a, b,
                      rest
                      \o (IF r[1] < i /\ r[3] < j THEN << <<r[1], i, r[3], j>> >> ELSE << >>)
                      \o (IF i + k < r[2] /\ j + k < r[4]
                          THEN << <<i + k, r[2], j + k, r[4]>> >> ELSE << >>),
                      Append(blocks, x))

\* tuple comparison x < y
TupleLess(x, y) ==
    \/ x[1] < y[1]
    \/ x[1] = y[1] /\ x[2] < y[2]
    \/ x[1] = y[1] /\ x[2] = y[2] /\ x[3] < y[3]

RECURSIVE SortBlocks(_)
\* matching_blocks.sort()
SortBlocks(blocks) ==
    IF blocks = << >> THEN << >>
    ELSE LET least == CHOOSE n \in 1..Len(blocks) :
                          \A m \in 1..Len(blocks) : ~TupleLess(blocks[m], blocks[n])
         IN  <<blocks[least]>>
             \o SortBlocks([m \in 1..(Len(blocks) - 1) |->
                               IF m < least THEN blocks[m] ELSE blocks[m + 1]])

RECURSIVE Collapse(_, _, _, _)
\* the loop that merges adjacent blocks; cur is (i1, j1, k1)
Collapse(blocks, n, cur, acc) ==
    IF n > Len(blocks)
    THEN (IF cur[3] # 0 THEN Append(acc, cur) ELSE acc)
    ELSE LET nxt == blocks[n]
         IN  IF cur[1] + cur[3] = nxt[1] /\ cur[2] + cur[3] = nxt[2]
             THEN Collapse(blocks, n + 1, <<cur[1], cur[2], cur[3] + nxt[3]>>, acc)
             ELSE Collapse(blocks, n + 1, nxt,
                           IF cur[3] # 0 THEN Append(acc, cur) ELSE acc)

get_matching_blocks(a, b) ==
    LET found == MatchQueue(a, b, << <<0, Len(a), 0, Len(b)>> >>, << >>)
    IN  Append(Collapse(SortBlocks(found), 1, <<0, 0, 0>>, << >>), <<Len(a), Len(b), 0>>)

RECURSIVE OpcodeLoop(_, _, _, _, _)
\* the loop of get_opcodes over the matching blocks, from block n on
OpcodeLoop(blocks, n, i, j, answer) ==
    IF n > Len(blocks) THEN answer
    ELSE LET ai == blocks[n][1]
             bj == blocks[n][2]
             size == blocks[n][3]
             tag == IF i < ai /\ j < bj THEN "replace"
                    ELSE IF i < ai THEN "delete"
                    ELSE IF j < bj THEN "insert"
                    ELSE ""
             withTag == IF tag # "" THEN Append(answer, <<tag, i, ai, j, bj>>) ELSE answer
             withEqual == IF size # 0
                          THEN Append(withTag, <<"equal", ai, ai + size, bj, bj + size>>)
                          ELSE withTag
         IN  OpcodeLoop(blocks, n + 1, ai + size, bj + size, withEqual)

get_opcodes(a, b) == OpcodeLoop(get_matching_blocks(a, b), 1, 0, 0, << >>)

(***************************************************************************)
(* diff_words_html                                                         *)
(***************************************************************************)
RECURSIVE SplitFrom(_, _, _, _)
\* str.split(): the maximal runs of non-whitespace characters
SplitFrom(s, i, word, acc) ==
    IF i > Len(s) THEN (IF word # << >> THEN Append(acc, word) ELSE acc)
    ELSE IF s[i] \in Whitespace
         THEN SplitFrom(s, i + 1, << >>, IF word # << >> THEN Append(acc, word) ELSE acc)
         ELSE SplitFrom(s, i + 1, Append(word, s[i]), acc)

\* faulty variant of Split: split(" "), which splits on the space alone
RECURSIVE SplitOnSpace(_, _, _, _)
SplitOnSpace(s, i, word, acc) ==
    IF i > Len(s) THEN (IF word # << >> THEN Append(acc, word) ELSE acc)
    ELSE IF s[i] = " "
         THEN SplitOnSpace(s, i + 1, << >>, IF word # << >> THEN Append(acc, word) ELSE acc)
         ELSE SplitOnSpace(s, i + 1, Append(word, s[i]), acc)

Split_on_space_only(s) == SplitOnSpace(s, 1, << >>, << >>)

Split(s) == SplitFrom(s, 1, << >>, << >>)

RECURSIVE Join(_, _)
\* sep.join(parts)
Join(sep, parts) ==
    IF parts = << >> THEN << >>
    ELSE IF Len(parts) = 1 THEN parts[1]
    ELSE parts[1] \o sep \o Join(sep, Tail(parts))

DelOpen == <<"<","d","e","l"," ","s","t","y","l","e","=","\"","b","a","c","k","g","r","o","u","n","d","-","c","o","l","o","r",":","#","8","b","0","0","0","0",";","c","o","l","o","r",":","w","h","i","t","e",";","p","a","d","d","i","n","g",":","0"," ","2","p","x",";","\"",">">>
DelClose == <<"<","/","d","e","l",">">>
InsOpen == <<"<","i","n","s"," ","s","t","y","l","e","=","\"","b","a","c","k","g","r","o","u","n","d","-","c","o","l","o","r",":","#","0","0","6","4","0","0",";","c","o","l","o","r",":","w","h","i","t","e",";","p","a","d","d","i","n","g",":","0"," ","2","p","x",";","\"",">">>
InsClose == <<"<","/","i","n","s",">">>

\* words[lo:hi], 0-based and half-open
Slice(words, lo, hi) == SubSeq(words, lo + 1, hi)

Wrapped(open, words, close) == [n \in 1..Len(words) |-> open \o words[n] \o close]

\* faulty variant of opcode_parts: a replace span is rendered as a delete span
opcode_parts_replace_as_delete(op, orig_words, safe_words) ==
    IF op[1] = "equal" THEN Slice(orig_words, op[2], op[3])
    ELSE IF op[1] = "insert" THEN Wrapped(InsOpen, Slice(safe_words, op[4], op[5]), InsClose)
    ELSE Wrapped(DelOpen, Slice(orig_words, op[2], op[3]), DelClose)

\* what one opcode appends to out_parts
opcode_parts(op, orig_words, safe_words) ==
    IF op[1] = "equal" THEN Slice(orig_words, op[2], op[3])
    ELSE IF op[1] = "delete"
         THEN Wrapped(DelOpen, Slice(orig_words, op[2], op[3]), DelClose)
    ELSE IF op[1] = "insert"
         THEN Wrapped(InsOpen, Slice(safe_words, op[4], op[5]), InsClose)
    ELSE Wrapped(DelOpen, Slice(orig_words, op[2], op[3]), DelClose)
         \o Wrapped(InsOpen, Slice(safe_words, op[4], op[5]), InsClose)

RECURSIVE PartsLoop(_, _, _, _)
\* the for loop over sm.get_opcodes()
PartsLoop(ops, n, orig_words, safe_words) ==
    IF n > Len(ops) THEN << >>
    ELSE opcode_parts(ops[n], orig_words, safe_words)
         \o PartsLoop(ops, n + 1, orig_words, safe_words)

\* The value returned is diff_html; out_parts and the opcodes are the locals
\* it is joined from.
diff_words_html(orig, safe_text) ==
    LET orig_words == Split(orig)
        safe_words == Split(safe_text)
        opcodes == get_opcodes(orig_words, safe_words)
        out_parts == PartsLoop(opcodes, 1, orig_words, safe_words)
    IN  [opcodes |-> opcodes, out_parts |-> out_parts, diff_html |-> Join(<<" ">>, out_parts)]

(***************************************************************************)
(* Specification of the diff: one call of diff_words_html, on two texts    *)
(* that hold at most MaxDiffChunks chunks between them or on twice the     *)
(* same text of at most MaxSameChunks chunks.                              *)
(***************************************************************************)
DiffVocab == { <<"a"," ">>, <<"b">>, <<" ","\n">> }

DiffInputs ==
    UNION {Texts(DiffVocab, i) \X Texts(DiffVocab, j) :
               <<i, j>> \in {p \in (0..MaxDiffChunks) \X (0..MaxDiffChunks) :
                                 p[1] + p[2] <= MaxDiffChunks}}
    \cup UNION {{<<x, x>> : x \in Texts(DiffVocab, n)} : n \in 0..MaxSameChunks}

InitDiff ==
    /\ Idle
    /\ \E p \in DiffInputs : original = p[1] /\ safe = p[2]
    /\ subject = << >>
    /\ body = << >>
    /\ score_in = 0
    /\ raw_headers = None

CallDiff ==
    /\ pc = "call"
    /\ pc' = "done"
    /\ result' = diff_words_html(original, safe)
    /\ UNCHANGED <<subject, body, score_in, raw_headers, original, safe>>

SpecDiff == InitDiff /\ [][CallDiff]_vars

(***************************************************************************)
(* Properties of the scorer (checked under SpecScore).                     *)
(***************************************************************************)
Min(a, b) == IF a < b THEN a ELSE b

ScoredText == Lower(subject \o <<" ">> \o body)

\* The rules a lowercased text triggers: each keyword, the link rule, the
\* financial rule.
TriggeredRules(text) ==
    {w \in {phishing_keywords[i] : i \in 1..Len(phishing_keywords)} : Contains(text, w)}
    \cup (IF Contains(text, <<"h","t","t","p",":","/","/">>) \/ Contains(text, <<"h","t","t","p","s",":","/","/">>)
          THEN {<<"<","l","i","n","k",">">>} ELSE {})
    \cup (IF \E f \in {<<"b","a","n","k">>, <<"p","a","y","p","a","l">>, <<"c","r","y","p","t","o">>} : Contains(text, f)
          THEN {<<"<","f","i","n","a","n","c","i","a","l",">">>} ELSE {})

\* The (triggered rules, score) pairs of every input of the scorer.
ScoreTable ==
    {[rules |-> TriggeredRules(Lower(p[1] \o <<" ">> \o p[2])),
      score |-> simple_heuristic_score(p[1], p[2]).score] :
        p \in ScoreInputs}

\* C1: the score lies in [10,100], and a text whose triggered rules include
\* those of another text never scores less than it.
C1_ScoreRangeAndMonotone ==
    pc = "done" =>
        LET mine == TriggeredRules(ScoredText)
        IN  /\ result.score \in 10..100
            /\ \A other \in ScoreTable :
                  /\ other.rules \subseteq mine => other.score <= result.score
                  /\ mine \subseteq other.rules => result.score <= other.score

\* The clamp acts (the raw sum exceeds 100) and some other input triggers a
\* strict subset of this input's rules while scoring strictly less.
C1_Witness ==
    /\ pc = "done"
    /\ result.score = 100
    /\ Len(result.reasons) >= 7
    /\ LET mine == TriggeredRules(ScoredText)
       IN  \E other \in ScoreTable :
              /\ other.rules \subseteq mine
              /\ other.rules # mine
              /\ other.score < result.score

KeywordCount == Cardinality({i \in 1..Len(phishing_keywords) :
                                 Contains(ScoredText, phishing_keywords[i])})
LinkCount == IF Contains(ScoredText, <<"h","t","t","p",":","/","/">>) \/ Contains(ScoredText, <<"h","t","t","p","s",":","/","/">>)
             THEN 1 ELSE 0
FinancialCount ==
    IF \E f \in {<<"b","a","n","k">>, <<"p","a","y","p","a","l">>, <<"c","r","y","p","t","o">>} : Contains(ScoredText, f) THEN 1 ELSE 0

ExpectedReasons ==
    LET hits == SelectSeq(phishing_keywords, LAMBDA w : Contains(ScoredText, w))
    IN  [i \in 1..Len(hits) |-> <<"C","o","n","t","a","i","n","s"," ","k","e","y","w","o","r","d",":"," ">> \o hits[i]]
        \o (IF LinkCount = 1 THEN << <<"C","o","n","t","a","i","n","s"," ","a"," ","l","i","n","k">> >> ELSE << >>)
        \o (IF FinancialCount = 1
            THEN << <<"M","e","n","t","i","o","n","s"," ","f","i","n","a","n","c","i","a","l"," ","s","e","r","v","i","c","e"," ","o","r"," ","m","o","n","e","y">> >> ELSE << >>)

\* C3: score = min(100, 10 + 15k + 20l + 15f); the reasons are the k keyword
\* reasons in keyword order, then the link reason, then the financial reason;
\* empty subject and body give score 10 and no reasons.
C3_ScoreFormulaAndReasons ==
    pc = "done" =>
        /\ result.score = Min(100, 10 + 15 * KeywordCount + 20 * LinkCount
                                      + 15 * FinancialCount)
        /\ Len(result.reasons) = KeywordCount + LinkCount + FinancialCount
        /\ result.reasons = ExpectedReasons
        /\ (subject = << >> /\ body = << >>)
              => (result.score = 10 /\ result.reasons = << >>)

\* A scored text with several keywords, a link that is only "https://", and a
\* financial term.
C3_Witness ==
    /\ pc = "done"
    /\ KeywordCount >= 2
    /\ Contains(ScoredText, <<"h","t","t","p","s",":","/","/">>)
    /\ ~Contains(ScoredText, <<"h","t","t","p",":","/","/">>)
    /\ FinancialCount = 1
    /\ result.reasons[Len(result.reasons)] = <<"M","e","n","t","i","o","n","s"," ","f","i","n","a","n","c","i","a","l"," ","s","e","r","v","i","c","e"," ","o","r"," ","m","o","n","e","y">>
    /\ result.reasons[Len(result.reasons) - 1] = <<"C","o","n","t","a","i","n","s"," ","a"," ","l","i","n","k">>

(***************************************************************************)
(* Properties of the verdict mapping (checked under SpecVerdict).          *)
(***************************************************************************)
\* C2: for every s in [0,100] the verdict is SAFE iff s <= 30, SUSPICIOUS iff
\* 31 <= s <= 69, PHISHING iff s >= 70, and it is one of the three.
C2_VerdictThresholds ==
    pc = "done" =>
        /\ result \in {"SAFE", "SUSPICIOUS", "PHISHING"}
        /\ (result = "SAFE") <=> (score_in <= 30)
        /\ (result = "SUSPICIOUS") <=> (31 <= score_in /\ score_in <= 69)
        /\ (result = "PHISHING") <=> (score_in >= 70)

\* The boundary score 30 has been mapped.
C2_Witness ==
    /\ pc = "done"
    /\ score_in = 30
    /\ result = "SAFE"

(***************************************************************************)
(* Properties of the header inspector (checked under SpecHeader).          *)
(***************************************************************************)
\* C4: absent or empty raw_headers give unknown auth fields, unknown domain
\* fields and exactly the flag "No headers provided".
C4_NoHeaders ==
    (pc = "done" /\ (raw_headers = None \/ raw_headers = Some(<< >>))) =>
        /\ result.spf_pass = None
        /\ result.dkim_pass = None
        /\ result.dmarc_pass = None
        /\ result.from_domain = None
        /\ result.return_path_domain = None
        /\ result.reply_to_domain = None
        /\ result.suspicious_flags = << <<"N","o"," ","h","e","a","d","e","r","s"," ","p","r","o","v","i","d","e","d">> >>

\* The empty string (not None) has been inspected.
C4_Witness ==
    /\ pc = "done"
    /\ raw_headers = Some(<< >>)
    /\ Len(result.suspicious_flags) = 1

HeaderBlob == Lower(raw_headers[1])

ExpectedFlags ==
    (IF Contains(HeaderBlob, <<"s","p","f","=","f","a","i","l">>)
     THEN << <<"S","P","F"," ","f","a","i","l"," ","f","o","u","n","d"," ","i","n"," ","A","u","t","h","e","n","t","i","c","a","t","i","o","n","-","R","e","s","u","l","t","s">> >> ELSE << >>)
    \o (IF Contains(HeaderBlob, <<"d","k","i","m","=","f","a","i","l">>)
        THEN << <<"D","K","I","M"," ","f","a","i","l"," ","f","o","u","n","d"," ","i","n"," ","A","u","t","h","e","n","t","i","c","a","t","i","o","n","-","R","e","s","u","l","t","s">> >> ELSE << >>)
    \o (IF Contains(HeaderBlob, <<"d","m","a","r","c","=","f","a","i","l">>)
        THEN << <<"D","M","A","R","C"," ","f","a","i","l"," ","f","o","u","n","d"," ","i","n"," ","A","u","t","h","e","n","t","i","c","a","t","i","o","n","-","R","e","s","u","l","t","s">> >> ELSE << >>)

\* C5: for non-empty raw_headers each pass field is a boolean, true iff the
\* lowercased blob contains "<mech>=pass"; the flags are the fail flags of the
\* mechanisms whose "<mech>=fail" the blob contains, in the order SPF, DKIM,
\* DMARC; "SPF=PASS; DKIM=fail" gives true/false/false and the DKIM flag.
C5_HeaderChecks ==
    (pc = "done" /\ raw_headers # None /\ raw_headers # Some(<< >>)) =>
        /\ result.spf_pass = Some(Contains(HeaderBlob, <<"s","p","f","=","p","a","s","s">>))
        /\ result.dkim_pass = Some(Contains(HeaderBlob, <<"d","k","i","m","=","p","a","s","s">>))
        /\ result.dmarc_pass = Some(Contains(HeaderBlob, <<"d","m","a","r","c","=","p","a","s","s">>))
        /\ result.suspicious_flags = ExpectedFlags
        /\ raw_headers = Some(<<"S","P","F","=","P","A","S","S",";"," ","D","K","I","M","=","f","a","i","l">>) =>
              /\ result.spf_pass = Some(TRUE)
              /\ result.dkim_pass = Some(FALSE)
              /\ result.dmarc_pass = Some(FALSE)
              /\ result.suspicious_flags =
                    << <<"D","K","I","M"," ","f","a","i","l"," ","f","o","u","n","d"," ","i","n"," ","A","u","t","h","e","n","t","i","c","a","t","i","o","n","-","R","e","s","u","l","t","s">> >>

\* A blob with both spf=pass (in upper case) and spf=fail has been inspected:
\* spf_pass is true and the SPF fail flag is raised.
C5_Witness ==
    /\ pc = "done"
    /\ raw_headers # None
    /\ Contains(raw_headers[1], <<"S","P","F","=","P","A","S","S">>)
    /\ Contains(raw_headers[1], <<"s","p","f","=","f","a","i","l">>)
    /\ result.spf_pass = Some(TRUE)
    /\ result.suspicious_flags = << <<"S","P","F"," ","f","a","i","l"," ","f","o","u","n","d"," ","i","n"," ","A","u","t","h","e","n","t","i","c","a","t","i","o","n","-","R","e","s","u","l","t","s">> >>

\* The example of the claim has been inspected.
C5_ExampleReached ==
    /\ pc = "done"
    /\ raw_headers = Some(<<"S","P","F","=","P","A","S","S",";"," ","D","K","I","M","=","f","a","i","l">>)

(***************************************************************************)
(* Properties of the rewrite (checked under SpecRewrite).                  *)
(***************************************************************************)
\* s holds "http://" or "https://" immediately followed by a non-whitespace
\* character
HasLiteralUrl(s) ==
    \E i \in 1..Len(s) :
        \/ MatchAt(s, <<"h","t","t","p",":","/","/">>, i) /\ i + 7 <= Len(s) /\ s[i + 7] \notin Whitespace
        \/ MatchAt(s, <<"h","t","t","p","s",":","/","/">>, i) /\ i + 8 <= Len(s) /\ s[i + 8] \notin Whitespace

\* C8: safe_body holds no "http://" or "https://" immediately followed by a
\* non-whitespace character.
C8_NoLiteralUrl ==
    pc = "done" => ~HasLiteralUrl(result.safe_body)

\* A body with an https URL has been rewritten: the marker stands in
\* safe_body.
C8_Witness ==
    /\ pc = "done"
    /\ HasLiteralUrl(body)
    /\ Contains(body, <<"h","t","t","p","s",":","/","/","a">>)
    /\ Contains(result.safe_body, <<"[","l","i","n","k"," ","r","e","m","o","v","e","d","]">>)

\* C9: safe_body contains "thank you" ignoring case; the closing block is
\* appended to the trimmed body exactly when the body after the removal and
\* replacement steps lacks "thank you" (ignoring case), and otherwise that
\* body is returned as it is; an empty body gets the closing.
C9_ThankYouClosing ==
    pc = "done" =>
        LET before == body_before_closing(body)
            closing == <<"\n","\n","T","h","a","n","k"," ","y","o","u",",","\n","C","u","s","t","o","m","e","r"," ","S","u","p","p","o","r","t"," ","T","e","a","m">>
        IN  /\ Contains(Lower(result.safe_body), <<"t","h","a","n","k"," ","y","o","u">>)
            /\ ~Contains(Lower(before), <<"t","h","a","n","k"," ","y","o","u">>)
                  => result.safe_body = Strip(before) \o closing
            /\ Contains(Lower(before), <<"t","h","a","n","k"," ","y","o","u">>) => result.safe_body = before
            /\ body = << >> => result.safe_body = closing

\* A body that says "Thank You" in mixed case has been rewritten and got no
\* closing block.
C9_Witness ==
    /\ pc = "done"
    /\ Contains(body, <<"T","h","a","n","k"," ","Y","o","u">>)
    /\ ~Contains(body, <<"t","h","a","n","k"," ","y","o","u">>)
    /\ ~Contains(result.safe_body, <<"C","u","s","t","o","m","e","r"," ","S","u","p","p","o","r","t"," ","T","e","a","m">>)

\* The closing has been appended to a body that needed trimming.
C9_TrimReached ==
    /\ pc = "done"
    /\ body # << >>
    /\ body[Len(body)] \in Whitespace
    /\ Contains(result.safe_body, <<"C","u","s","t","o","m","e","r"," ","S","u","p","p","o","r","t"," ","T","e","a","m">>)

SubjectTriggers ==
    { <<"s","u","s","p","e","n","d","e","d">>, <<"s","u","s","p","e","n","s","i","o","n">>, <<"u","r","g","e","n","t">>, <<"i","m","m","e","d","i","a","t","e","l","y">>, <<"i","m","m","e","d","i","a","t","e">> }

\* C10: safe_subject holds none of the five subject trigger strings, ignoring
\* case, also where a replacement or deletion joined the text around it.
C10_NoSubjectTrigger ==
    pc = "done" =>
        \A trig \in SubjectTriggers : ~Contains(Lower(result.safe_subject), trig)

\* C10 restricted to the subjects in which no deletion rule ("immediately",
\* "immediate") finds a match: there the five triggers are gone.
C10_HoldsWithoutDeletion ==
    (pc = "done" /\ ~Contains(Lower(subject), <<"i","m","m","e","d","i","a","t","e">>)) =>
        \A trig \in SubjectTriggers : ~Contains(Lower(result.safe_subject), trig)

(***************************************************************************)
(* Properties of the diff (checked under SpecDiff).                        *)
(***************************************************************************)
IsWrapped(part, open, close) ==
    /\ Len(part) >= Len(open) + Len(close)
    /\ MatchAt(part, open, 1)
    /\ MatchAt(part, close, Len(part) - Len(close) + 1)

Unwrapped(part, open, close) == SubSeq(part, Len(open) + 1, Len(part) - Len(close))

IsRemoved(part) == IsWrapped(part, DelOpen, DelClose)
IsInserted(part) == IsWrapped(part, InsOpen, InsClose)

RECURSIVE OriginalSide(_)
\* the tokens of the equal spans and the removed tokens, in output order
OriginalSide(parts) ==
    IF parts = << >> THEN << >>
    ELSE (IF IsRemoved(Head(parts)) THEN <<Unwrapped(Head(parts), DelOpen, DelClose)>>
          ELSE IF IsInserted(Head(parts)) THEN << >>
          ELSE <<Head(parts)>>)
         \o OriginalSide(Tail(parts))

RECURSIVE RewrittenSide(_)
\* the tokens of the equal spans and the inserted tokens, in output order
RewrittenSide(parts) ==
    IF parts = << >> THEN << >>
    ELSE (IF IsInserted(Head(parts)) THEN <<Unwrapped(Head(parts), InsOpen, InsClose)>>
          ELSE IF IsRemoved(Head(parts)) THEN << >>
          ELSE <<Head(parts)>>)
         \o RewrittenSide(Tail(parts))

\* C6: the equal and removed tokens of the output, in order, are the tokens
\* of original; the equal and inserted tokens, in order, are those of
\* rewritten.
C6_DiffRoundTrip ==
    pc = "done" =>
        /\ OriginalSide(result.out_parts) = Split(original)
        /\ RewrittenSide(result.out_parts) = Split(safe)

\* A diff with an equal span and a replace span has been rendered, of texts
\* that both hold several tokens.
C6_Witness ==
    /\ pc = "done"
    /\ \E n \in 1..Len(result.opcodes) : result.opcodes[n][1] = "replace"
    /\ \E n \in 1..Len(result.opcodes) : result.opcodes[n][1] = "equal"
    /\ Len(Split(original)) >= 2
    /\ Len(Split(safe)) >= 2
    /\ \E n \in 1..Len(result.out_parts) : IsRemoved(result.out_parts[n])
    /\ \E n \in 1..Len(result.out_parts) : IsInserted(result.out_parts[n])

\* Every opcode tag has been rendered.
C6_InsertReached ==
    pc = "done" /\ \E n \in 1..Len(result.opcodes) : result.opcodes[n][1] = "insert"
C6_DeleteReached ==
    pc = "done" /\ \E n \in 1..Len(result.opcodes) : result.opcodes[n][1] = "delete"

RECURSIVE SingleSpaced(_, _, _)
\* s from position i on with every run of whitespace turned into one space
\* and the whitespace at both ends dropped; out is the text so far
SingleSpaced(s, i, out) ==
    IF i > Len(s) THEN out
    ELSE IF s[i] \in Whitespace THEN SingleSpaced(s, i + 1, out)
    ELSE IF out # << >> /\ i > 1 /\ s[i - 1] \in Whitespace
         THEN SingleSpaced(s, i + 1, out \o <<" ", s[i]>>)
    ELSE SingleSpaced(s, i + 1, Append(out, s[i]))

\* C7: diff_words_html(x, x) emits only equal spans: no <del> and no <ins>
\* marker, and the output is the tokens of x joined by single spaces.
C7_DiffOfSameText ==
    (pc = "done" /\ original = safe) =>
        /\ \A n \in 1..Len(result.opcodes) : result.opcodes[n][1] = "equal"
        /\ \A n \in 1..Len(result.out_parts) :
              ~IsRemoved(result.out_parts[n]) /\ ~IsInserted(result.out_parts[n])
        /\ ~Contains(result.diff_html, <<"<","d","e","l">>)
        /\ ~Contains(result.diff_html, <<"<","i","n","s">>)
        /\ result.diff_html = SingleSpaced(original, 1, << >>)

\* A text of several tokens, with whitespace other than single spaces, has
\* been diffed against itself.
C7_Witness ==
    /\ pc = "done"
    /\ original = safe
    /\ Len(Split(original)) >= 3
    /\ Contains(original, <<"\n">>)
    /\ result.diff_html # original

====
